---- MODULE Spec2Model ----
(***************************************************************************)
(* TransRouter: the duplex audio pipeline.                                 *)
(*                                                                         *)
(*   device.py            playout(): feeder + hardware output callback     *)
(*   gemini_transcriber.py QueueIterator, GeminiTranscriber (the link)     *)
(*   translator.py        AudioTranslator (the orchestrator)               *)
(*                                                                         *)
(* Two threads of control are modelled: the asyncio event loop (every      *)
(* coroutine step between two awaits is one action) and the PortAudio      *)
(* callback thread (one callback invocation is one or two actions: the     *)
(* part before future.result(), and the part after it).                    *)
(***************************************************************************)
EXTENDS Integers, Sequences, FiniteSets, TLC

\* ------------------------------------------------------------------ bounds
\* asyncio.Queue(maxsize=100) of playout and asyncio.Queue(maxsize=50) /
\* qsize() >= 50 of the transcriber, scaled down: the queues are modelled
\* with the capacity below instead of 100 and 50.
PlayQueueMax == 2
AudioOutMax == 2
\* the longest source given to play(), in frames, and the longest frame, in bytes
MaxFrames == 3
MaxFrameLen == 2
\* reply frames the link receives
MaxReply == 2
\* the largest byte count a callback invocation requests
MaxReq == 2
\* reply turns the link completes, captured frames offered to the link,
\* session tasks ever created
MaxTurns == 2
MaxCapture == 3
\* captured frames and reply frames while a whole translator runs
MaxRouted == 1
MaxOrchReply == 1
MaxSessions == 2
\* a limit on the captured frames that wait to be routed
CaptureBacklogMax == 2
\* samples in one captured block
BlockSize == 2
\* calls of AudioTranslator.stop() from outside run()
MaxStops == 2
\* abandoned queue.get() coroutines (timed-out pulls) that the event loop has
\* not run yet, at the same time
MaxOrphans == 2

VARIABLES
    \* ---- gemini_transcriber.py
    audio_in,      \* self.audio_in: reply frames and None sentinels (FIFO)
    audio_out,     \* self.audio_out: captured frames waiting to be sent
    session,       \* self.session: 0 (None) or the session
    send_task,     \* self.send_task: 0 (None) or the task
    session_task,  \* self.session_task: 0 (None) or the task
    sessSt,        \* each start_session() task: where it is
    sendSt,        \* each _send_audio() task: "none","run","done"
    cancelSess,    \* start_session() tasks with a cancel() not yet delivered
    cancelSend,    \* _send_audio() tasks with a cancel() not yet delivered
    nTasks,        \* start_session() tasks created so far
    turn,          \* the reply turn the link is in
    \* ---- the link's remote end and history (not program state)
    closes,        \* per session: how many times it has been closed
    sent,          \* the captured frames sent, with the session they went to
    unsent,        \* the captured frames the sender dequeued and did not send
    nCap,          \* captured frames handed to transcribe_audio so far
    capLeft,       \* captured frames the outside will still supply
    byteTurn,      \* per reply byte: the turn it was received in
    replyLeft,     \* reply frames the remote end will still send
    fed,           \* the reply frames play() put on the playback queue
    \* ---- translator.py
    running,          \* self.running
    recording_buffer, \* self.recording_buffer
    runPc,            \* where run() / start_streaming() is
    stopPc,           \* where each call of stop() is
    stopAwait,        \* the task each call of stop() is awaiting
    \* ---- device.py: record, and the engines' stop()
    capQ,             \* queue of record(): captured frames not yet routed
    recSt,            \* the input stream: "idle","active","stopped"
    playStop,         \* player.stop() has been called on a play() in progress
    \* ---- history (not program state)
    saved,            \* the recordings written by save_wav
    nCaptured,        \* frames the capture callback has delivered
    stopWhileRunning, \* stop() was called from outside while run() was routing
    routed,           \* the captured frames given to process_audio, in order
    itGets,           \* QueueIterator: items its queue.get() calls have returned
    itDone,           \* QueueIterator: calls of queue.task_done()
    \* ---- translator.py, device.py: the sample rates
    input_sample_rate,   \* self.input_sample_rate
    output_sample_rate,  \* self.output_sample_rate
    recorder_samplerate, \* self.recorder.samplerate
    player_samplerate,   \* self.player.samplerate
    \* ---- device.py: playout
    pq,            \* queue: the playback input queue
    buffer,        \* buffer: the PlaybackBuffer (bytes)
    done,          \* done: the end-of-stream event
    playPc,        \* where play() is: "init","feeding","putting","waiting","returned"
    held,          \* the frame the feeder got from the source and is putting
    stream,        \* the RawOutputStream: "closed","active","stopped"
    cbPc,          \* the callback thread: "idle" or "pulling" (inside future.result)
    cbFut,         \* the pull's queue.get() coroutine: "none","new","wait","woken","done"
    cbRes,         \* the frame that coroutine returned
    getWait,       \* queue._getters: the waiting get() futures, FIFO ("cb"/"orph")
    orphNew,       \* abandoned get() coroutines scheduled and not yet run
    orphWoken,     \* abandoned get() coroutines woken by a put and not yet run
    req,           \* required_bytes of this stream
    \* ---- history (not program state)
    source,        \* the frames the source of play() yields, in order
    played,        \* the non-padding bytes written to outdata, in order
    lastWrite,     \* the last finished callback: bytes written, bytes deleted
    taken          \* the frames abandoned get() coroutines took from the queue

playVars == <<pq, buffer, done, playPc, held, stream, cbPc, cbFut, cbRes,
              getWait, orphNew, orphWoken, req, source, played, lastWrite, taken>>
linkVars == <<audio_out, session, send_task, session_task, sessSt, sendSt,
              cancelSess, cancelSend, nTasks, closes, sent, unsent, nCap, capLeft>>
recvVars == <<turn, byteTurn, replyLeft>>
orchVars == <<running, recording_buffer, runPc, stopPc, stopAwait, capQ, recSt,
              playStop, saved, nCaptured, stopWhileRunning>>
rateVars == <<input_sample_rate, output_sample_rate, recorder_samplerate,
              player_samplerate>>
iterVars == <<itGets, itDone>>
auxVars == <<routed, rateVars, iterVars>>
vars == <<audio_in, playVars, fed, linkVars, recvVars, orchVars, auxVars>>
nonPlay == <<linkVars, recvVars, orchVars, auxVars>>

\* ------------------------------------------------------------------ values
NoneItem == [none |-> TRUE, data |-> <<>>]
Frame(d) == [none |-> FALSE, data |-> d]

RECURSIVE Concat(_)
Concat(frames) ==
    IF frames = <<>> THEN <<>> ELSE Head(frames).data \o Concat(Tail(frames))

RECURSIVE SumLen(_)
SumLen(lens) == IF lens = <<>> THEN 0 ELSE Head(lens) + SumLen(Tail(lens))

\* frames of the given lengths holding the bytes 1, 2, 3, ... in order
MkFrames(lens) ==
    [i \in 1..Len(lens) |->
        Frame([j \in 1..lens[i] |-> SumLen(SubSeq(lens, 1, i - 1)) + j])]

SeqsUpTo(S, n) == UNION {[1..k -> S] : k \in 0..n}

Zeros(n) == [i \in 1..n |-> 0]
Take(s, n) == SubSeq(s, 1, IF n < Len(s) THEN n ELSE Len(s))
Drop(s, n) == SubSeq(s, (IF n < Len(s) THEN n ELSE Len(s)) + 1, Len(s))
NonZero(s) == SelectSeq(s, LAMBDA b : b # 0)

\* asyncio.Queue.get on an empty queue: the getter waits in queue._getters.
\* At most MaxPuts frames are ever put, so a getter that waits behind
\* MaxPuts others is never woken: the model does not keep it.
MaxPuts == IF MaxFrames > MaxReply THEN MaxFrames ELSE MaxReply
GetterWaits(g) == IF Len(getWait) < MaxPuts THEN Append(getWait, g) ELSE getWait

\* ---------------------------------------------------- device.py: playout
\* a put that never waits for room
PutNeverWaits == TRUE

\* asyncio.Queue.put: room below maxsize
PqHasRoom == Len(pq) < PlayQueueMax

\* asyncio.Queue.put_nowait on the playback queue: append, wake the first getter
PqPut(item) ==
    /\ pq' = Append(pq, item)
    /\ IF getWait = <<>>
       THEN UNCHANGED <<getWait, cbFut, orphWoken>>
       ELSE /\ getWait' = Tail(getWait)
            /\ IF Head(getWait) = "cb"
               THEN cbFut' = "woken" /\ UNCHANGED orphWoken
               ELSE orphWoken' = orphWoken + 1 /\ UNCHANGED cbFut

\* outdata.write(bytes(buffer[:required_bytes])); del buffer[:required_bytes]
WriteOut(buf) ==
    /\ played' = played \o NonZero(Take(buf, req))
    /\ lastWrite' = [wrote |-> Len(Take(buf, req)),
                     deleted |-> Len(buf) - Len(Drop(buf, req)),
                     req |-> req]
    /\ buffer' = Drop(buf, req)

\* with sd.RawOutputStream(...) as stream: stream.start()
PlayOpen ==
    /\ playPc = "init"
    /\ playPc' = "feeding"
    /\ stream' = "active"
    /\ UNCHANGED <<audio_in, pq, buffer, done, held, cbPc, cbFut, cbRes, getWait,
                   orphNew, orphWoken, req, source, played, lastWrite, taken>>
    /\ UNCHANGED <<fed, nonPlay>>

\* async for data in audio_iterator: QueueIterator.__anext__ returns an item,
\* or raises StopAsyncIteration on None, and then finally: done.set()
FeederNext ==
    /\ playPc = "feeding"
    /\ audio_in # <<>>
    /\ audio_in' = Tail(audio_in)
    /\ IF Head(audio_in).none
       THEN /\ done' = TRUE
            /\ playPc' = "waiting"
            /\ UNCHANGED held
       ELSE /\ held' = Head(audio_in)
            /\ playPc' = "putting"
            /\ UNCHANGED done
    /\ UNCHANGED <<pq, buffer, stream, cbPc, cbFut, cbRes, getWait, orphNew,
                   orphWoken, req, source, played, lastWrite, taken>>
    /\ itGets' = itGets + 1
    /\ itDone' = itDone + 1
    /\ UNCHANGED <<fed, linkVars, recvVars, orchVars, routed, rateVars>>

\* the play() task is cancelled while __anext__ waits in queue.get() on an
\* empty queue: CancelledError is raised there, finally: self.queue.task_done()
\* runs although no item was taken, then playout's finally: done.set(), and the
\* with block closes the stream
PlayCancelled ==
    /\ playPc = "feeding"
    /\ audio_in = <<>>
    /\ itDone' = itDone + 1
    /\ done' = TRUE
    /\ playPc' = "cancelled"
    /\ stream' = "closed"
    /\ UNCHANGED <<audio_in, pq, buffer, held, cbPc, cbFut, cbRes, getWait,
                   orphNew, orphWoken, req, source, played, lastWrite, taken>>
    /\ UNCHANGED <<fed, linkVars, recvVars, orchVars, routed, rateVars, itGets>>

\* await queue.put(data)
FeederPut ==
    /\ playPc = "putting"
    /\ PqHasRoom
    /\ PqPut(held)
    /\ fed' = Append(fed, held)
    /\ playPc' = "feeding"
    /\ held' = NoneItem
    /\ UNCHANGED <<audio_in, buffer, done, stream, cbPc, cbRes, orphNew, req,
                   source, played, lastWrite, taken>>
    /\ UNCHANGED nonPlay

\* while not queue.empty() or len(buffer) > 0: await asyncio.sleep(0.1)
\* and then the with block closes the stream and play() returns
PlayReturn ==
    /\ playPc = "waiting"
    /\ pq = <<>>
    /\ buffer = <<>>
    /\ playPc' = "returned"
    /\ stream' = "closed"
    /\ UNCHANGED <<audio_in, pq, buffer, done, held, cbPc, cbFut, cbRes, getWait,
                   orphNew, orphWoken, req, source, played, lastWrite, taken>>
    /\ UNCHANGED <<fed, nonPlay>>

\* callback: len(buffer) >= required_bytes, or the pull is started
CbStart ==
    /\ stream = "active"
    /\ cbPc = "idle"
    /\ IF Len(buffer) >= req
       THEN /\ WriteOut(buffer)
            /\ UNCHANGED <<cbPc, cbFut>>
       ELSE /\ cbPc' = "pulling"
            /\ cbFut' = "new"
            /\ UNCHANGED <<buffer, played, lastWrite>>
    /\ UNCHANGED <<audio_in, pq, done, playPc, held, stream, cbRes, getWait,
                   orphNew, orphWoken, req, source, taken>>
    /\ UNCHANGED <<fed, nonPlay>>

\* the event loop runs the pull's queue.get(): it returns the head of the
\* queue, or waits (again) in queue._getters
GetRunCb ==
    /\ cbFut \in {"new", "woken"}
    /\ IF pq # <<>>
       THEN /\ cbRes' = Head(pq)
            /\ pq' = Tail(pq)
            /\ cbFut' = "done"
            /\ UNCHANGED getWait
       ELSE /\ getWait' = GetterWaits("cb")
            /\ cbFut' = "wait"
            /\ UNCHANGED <<pq, cbRes>>
    /\ UNCHANGED <<audio_in, buffer, done, playPc, held, stream, cbPc, orphNew,
                   orphWoken, req, source, played, lastWrite, taken>>
    /\ UNCHANGED <<fed, nonPlay>>

\* the event loop runs a get() whose future.result() timed out earlier:
\* nothing cancelled it, and what it takes from the queue nobody reads
GetRunOrphan ==
    /\ orphNew + orphWoken > 0
    /\ \E fromNew \in BOOLEAN :
        /\ IF fromNew THEN orphNew > 0 ELSE orphWoken > 0
        /\ orphNew' = IF fromNew THEN orphNew - 1 ELSE orphNew
        /\ orphWoken' = IF fromNew THEN orphWoken ELSE orphWoken - 1
    /\ IF pq # <<>>
       THEN /\ taken' = Append(taken, Head(pq))
            /\ pq' = Tail(pq)
            /\ UNCHANGED getWait
       ELSE /\ getWait' = GetterWaits("orph")
            /\ UNCHANGED <<pq, taken>>
    /\ UNCHANGED <<audio_in, buffer, done, playPc, held, stream, cbPc, cbFut,
                   cbRes, req, source, played, lastWrite>>
    /\ UNCHANGED <<fed, nonPlay>>

\* buffer.extend(future.result(timeout=0.1)), then the write
CbGot ==
    /\ cbPc = "pulling"
    /\ cbFut = "done"
    /\ WriteOut(buffer \o cbRes.data)
    /\ cbPc' = "idle"
    /\ cbFut' = "none"
    /\ cbRes' = NoneItem
    /\ UNCHANGED <<audio_in, pq, done, playPc, held, stream, getWait, orphNew,
                   orphWoken, req, source, taken>>
    /\ UNCHANGED <<fed, nonPlay>>

\* the stream is stopped as soon as the end of the source has been signalled
StopOnFailedPullEager == done

\* if done.is_set() and len(buffer) == 0: raise sd.CallbackStop()
StopOnFailedPull == done /\ Len(buffer) = 0

\* future.result(timeout=0.1) raises: the get() coroutine stays scheduled;
\* CallbackStop when done is set and the buffer is empty, else the pad
CbTimeout ==
    /\ cbPc = "pulling"
    /\ cbFut \in {"new", "wait", "woken"}
    /\ orphNew + orphWoken < MaxOrphans
    /\ orphNew' = IF cbFut = "new" THEN orphNew + 1 ELSE orphNew
    /\ orphWoken' = IF cbFut = "woken" THEN orphWoken + 1 ELSE orphWoken
    /\ getWait' = [i \in 1..Len(getWait) |->
                      IF getWait[i] = "cb" THEN "orph" ELSE getWait[i]]
    /\ cbFut' = "none"
    /\ cbPc' = "idle"
    /\ IF StopOnFailedPull
       THEN /\ stream' = "stopped"
            /\ UNCHANGED <<buffer, played, lastWrite>>
       ELSE /\ WriteOut(buffer \o Zeros(req - Len(buffer)))
            /\ UNCHANGED stream
    /\ UNCHANGED <<audio_in, pq, done, playPc, held, cbRes, req, source, taken>>
    /\ UNCHANGED <<fed, nonPlay>>

\* an exception outside the pull (asyncio.get_event_loop() at the start of
\* the invocation): except Exception: raise sd.CallbackStop()
CbFail ==
    /\ stream = "active"
    /\ cbPc = "idle"
    /\ stream' = "stopped"
    /\ UNCHANGED <<audio_in, pq, buffer, done, playPc, held, cbPc, cbFut, cbRes,
                   getWait, orphNew, orphWoken, req, source, played, lastWrite,
                   taken>>
    /\ UNCHANGED <<fed, nonPlay>>

PlayNext ==
    \/ PlayOpen
    \/ FeederNext
    \/ FeederPut
    \/ PlayReturn
    \/ CbStart
    \/ GetRunCb
    \/ GetRunOrphan
    \/ CbGot
    \/ CbTimeout

\* ------------------------------------- gemini_transcriber.py: the link
SessIds == 1..MaxSessions
\* 0 is the stop() in the finally block of start_streaming(), the others are
\* the calls from outside
StopIds == 0..MaxStops

\* where a start_session() task that has not ended can be
SessActive == {"created", "connecting", "receiving", "closing"}

\* self.audio_out.qsize() >= 50
AudioOutFull == Len(audio_out) >= AudioOutMax
\* asyncio.Queue(maxsize=50).put: room below maxsize
AudioOutHasRoom == Len(audio_out) < AudioOutMax

\* leaving "async with ... connect(...) as session" closes the session
ExitConnect(i) == [closes EXCEPT ![i] = @ + 1]

\* the new frame goes to the front of the queue
TranscribeAudioFront(f) ==
    /\ session_task = 0 => nTasks < MaxSessions
    /\ IF session_task = 0
       THEN /\ session_task' = nTasks + 1
            /\ nTasks' = nTasks + 1
            /\ sessSt' = [sessSt EXCEPT ![nTasks + 1] = "created"]
       ELSE UNCHANGED <<session_task, nTasks, sessSt>>
    /\ audio_out' = IF Len(audio_out) < AudioOutMax
                    THEN <<f>> \o audio_out
                    ELSE audio_out

\* a full queue gives up its oldest frame for the new one
TranscribeAudioEvict(f) ==
    /\ session_task = 0 => nTasks < MaxSessions
    /\ IF session_task = 0
       THEN /\ session_task' = nTasks + 1
            /\ nTasks' = nTasks + 1
            /\ sessSt' = [sessSt EXCEPT ![nTasks + 1] = "created"]
       ELSE UNCHANGED <<session_task, nTasks, sessSt>>
    /\ audio_out' = IF Len(audio_out) < AudioOutMax
                    THEN Append(audio_out, f)
                    ELSE Append(Tail(audio_out), f)

\* transcribe_audio(audio_data): the first call creates the session task; a
\* full queue drops the frame, and so does a put that times out
TranscribeAudio(f) ==
    /\ session_task = 0 => nTasks < MaxSessions
    /\ IF session_task = 0
       THEN /\ session_task' = nTasks + 1
            /\ nTasks' = nTasks + 1
            /\ sessSt' = [sessSt EXCEPT ![nTasks + 1] = "created"]
       ELSE UNCHANGED <<session_task, nTasks, sessSt>>
    /\ audio_out' = IF ~AudioOutFull /\ AudioOutHasRoom
                    THEN Append(audio_out, f)
                    ELSE audio_out

\* a caller hands the next captured frame to transcribe_audio
Transcribe ==
    /\ capLeft > 0
    /\ capLeft' = capLeft - 1
    /\ nCap' = nCap + 1
    /\ TranscribeAudio(nCap + 1)
    /\ UNCHANGED <<session, send_task, sendSt, cancelSess, cancelSend, closes,
                   sent, unsent>>
    /\ UNCHANGED <<auxVars, audio_in, playVars, fed, recvVars, orchVars>>

\* start_session(): if self.session is None, connect; else nothing to do
SessStart(i) ==
    /\ sessSt[i] = "created"
    /\ i \notin cancelSess
    /\ sessSt' = [sessSt EXCEPT ![i] = IF session = 0 THEN "connecting" ELSE "done"]
    /\ UNCHANGED <<audio_out, session, send_task, session_task, sendSt, cancelSess,
                   cancelSend, nTasks, closes, sent, unsent, nCap, capLeft>>
    /\ UNCHANGED <<auxVars, audio_in, playVars, fed, recvVars, orchVars>>

\* the connect succeeds: self.session = session; self.send_task = create_task(...)
SessConnect(i) ==
    /\ sessSt[i] = "connecting"
    /\ i \notin cancelSess
    /\ session' = i
    /\ send_task' = i
    /\ sendSt' = [sendSt EXCEPT ![i] = "run"]
    /\ sessSt' = [sessSt EXCEPT ![i] = "receiving"]
    /\ UNCHANGED <<audio_out, session_task, cancelSess, cancelSend, nTasks, closes,
                   sent, unsent, nCap, capLeft>>
    /\ UNCHANGED <<auxVars, audio_in, playVars, fed, recvVars, orchVars>>

\* the connect raises: the exception leaves start_session() and ends the task
SessConnectFail(i) ==
    /\ sessSt[i] = "connecting"
    /\ i \notin cancelSess
    /\ sessSt' = [sessSt EXCEPT ![i] = "failed"]
    /\ UNCHANGED <<audio_out, session, send_task, session_task, sendSt, cancelSess,
                   cancelSend, nTasks, closes, sent, unsent, nCap, capLeft>>
    /\ UNCHANGED <<auxVars, audio_in, playVars, fed, recvVars, orchVars>>

\* a response with inline audio: await self.audio_in.put(part.inline_data.data)
LinkAudio(i) ==
    /\ sessSt[i] = "receiving"
    /\ i \notin cancelSess
    /\ replyLeft > 0
    /\ replyLeft' = replyLeft - 1
    /\ \E n \in 1..MaxFrameLen :
        LET d == [j \in 1..n |-> Len(byteTurn) + j] IN
        /\ audio_in' = Append(audio_in, Frame(d))
        /\ source' = Append(source, Frame(d))
        /\ byteTurn' = byteTurn \o [j \in 1..n |-> turn]
    /\ UNCHANGED <<pq, buffer, done, playPc, held, stream, cbPc, cbFut, cbRes,
                   getWait, orphNew, orphWoken, req, played, lastWrite, taken>>
    /\ UNCHANGED <<fed, linkVars, turn, orchVars, auxVars>>

\* a response with turn_complete: await self.audio_in.put(None)
LinkTurnComplete(i) ==
    /\ sessSt[i] = "receiving"
    /\ i \notin cancelSess
    /\ turn < MaxTurns
    /\ audio_in' = Append(audio_in, NoneItem)
    /\ turn' = turn + 1
    /\ UNCHANGED <<playVars, fed, linkVars, byteTurn, replyLeft, orchVars, auxVars>>

\* receive() raises: except Exception: if self.session: await self.session.close()
LinkRecvError(i) ==
    /\ sessSt[i] = "receiving"
    /\ i \notin cancelSess
    /\ IF session # 0
       THEN /\ closes' = [closes EXCEPT ![session] = @ + 1]
            /\ sessSt' = [sessSt EXCEPT ![i] = "closing"]
       ELSE /\ closes' = ExitConnect(i)
            /\ sessSt' = [sessSt EXCEPT ![i] = "done"]
    /\ UNCHANGED <<audio_out, session, send_task, session_task, sendSt, cancelSess,
                   cancelSend, nTasks, sent, unsent, nCap, capLeft>>
    /\ UNCHANGED <<auxVars, audio_in, playVars, fed, recvVars, orchVars>>

\* the close returns: self.session = None, and the async with block is left
SessCloseDone(i) ==
    /\ sessSt[i] = "closing"
    /\ i \notin cancelSess
    /\ session' = 0
    /\ closes' = ExitConnect(i)
    /\ sessSt' = [sessSt EXCEPT ![i] = "done"]
    /\ UNCHANGED <<audio_out, send_task, session_task, sendSt, cancelSess,
                   cancelSend, nTasks, sent, unsent, nCap, capLeft>>
    /\ UNCHANGED <<auxVars, audio_in, playVars, fed, recvVars, orchVars>>

\* _send_audio(): audio_data = await self.audio_out.get();
\* if self.session: await self.session.send(...)
SendAudio(i) ==
    /\ sendSt[i] = "run"
    /\ i \notin cancelSend
    /\ audio_out # <<>>
    /\ audio_out' = Tail(audio_out)
    /\ IF session # 0
       THEN /\ sent' = Append(sent, [frame |-> Head(audio_out), to |-> session])
            /\ UNCHANGED unsent
       ELSE /\ unsent' = Append(unsent, Head(audio_out))
            /\ UNCHANGED sent
    /\ UNCHANGED <<session, send_task, session_task, sessSt, sendSt, cancelSess,
                   cancelSend, nTasks, closes, nCap, capLeft>>
    /\ UNCHANGED <<auxVars, audio_in, playVars, fed, recvVars, orchVars>>

\* self.session.send raises: except Exception ends the send task
SendFail(i) ==
    /\ sendSt[i] = "run"
    /\ i \notin cancelSend
    /\ audio_out # <<>>
    /\ session # 0
    /\ audio_out' = Tail(audio_out)
    /\ unsent' = Append(unsent, Head(audio_out))
    /\ sendSt' = [sendSt EXCEPT ![i] = "done"]
    /\ UNCHANGED <<session, send_task, session_task, sessSt, cancelSess,
                   cancelSend, nTasks, closes, sent, nCap, capLeft>>
    /\ UNCHANGED <<auxVars, audio_in, playVars, fed, recvVars, orchVars>>

\* task.cancel() reaches start_session(): CancelledError is not an Exception,
\* so the except clause is passed by; if the async with block had been
\* entered, leaving it closes the session, and self.session stays set
SessCancelled(i) ==
    /\ i \in cancelSess
    /\ sessSt[i] \in SessActive
    /\ cancelSess' = cancelSess \ {i}
    /\ sessSt' = [sessSt EXCEPT ![i] = "cancelled"]
    /\ closes' = IF sessSt[i] \in {"receiving", "closing"}
                 THEN ExitConnect(i)
                 ELSE closes
    /\ UNCHANGED <<audio_out, session, send_task, session_task, sendSt,
                   cancelSend, nTasks, sent, unsent, nCap, capLeft>>
    /\ UNCHANGED <<auxVars, audio_in, playVars, fed, recvVars, orchVars>>

\* task.cancel() reaches _send_audio(): except asyncio.CancelledError, return
SendCancelled(i) ==
    /\ i \in cancelSend
    /\ sendSt[i] = "run"
    /\ cancelSend' = cancelSend \ {i}
    /\ sendSt' = [sendSt EXCEPT ![i] = "done"]
    /\ UNCHANGED <<audio_out, session, send_task, session_task, sessSt,
                   cancelSess, nTasks, closes, sent, unsent, nCap, capLeft>>
    /\ UNCHANGED <<auxVars, audio_in, playVars, fed, recvVars, orchVars>>

\* the steps of the session task and of the send task
SessNext ==
    \E i \in SessIds :
        \/ SessStart(i)
        \/ SessConnect(i)
        \/ SessConnectFail(i)
        \/ LinkAudio(i)
        \/ LinkTurnComplete(i)
        \/ LinkRecvError(i)
        \/ SessCloseDone(i)
        \/ SendAudio(i)
        \/ SendFail(i)

LinkNext == Transcribe \/ SessNext

\* ------------------------------ gemini_transcriber.py: stop_session()
\* A call runs without suspension until an await that has to wait, so the
\* parts below are chained inside one step where the code does not suspend.
SetStopPc(c, pc) == stopPc' = [stopPc EXCEPT ![c] = pc]

\* if self.session: await self.session.close()
StopSessionClose(c) ==
    IF session # 0
    THEN /\ closes' = [closes EXCEPT ![session] = @ + 1]
         /\ SetStopPc(c, "closewait")
    ELSE /\ UNCHANGED closes
         /\ SetStopPc(c, "done")

\* if self.session_task: cancel(); await it (only CancelledError is caught,
\* the exception of a failed task is raised again); self.session_task = None
StopSessionTask(c) ==
    IF session_task # 0 /\ sessSt[session_task] \in SessActive
    THEN /\ cancelSess' = cancelSess \cup {session_task}
         /\ stopAwait' = [stopAwait EXCEPT ![c] = session_task]
         /\ SetStopPc(c, "sesswait")
         /\ UNCHANGED <<session_task, closes>>
    ELSE IF session_task # 0 /\ sessSt[session_task] = "failed"
    THEN /\ SetStopPc(c, "raised")
         /\ UNCHANGED <<session_task, closes, cancelSess, stopAwait>>
    ELSE /\ session_task' = 0
         /\ UNCHANGED <<cancelSess, stopAwait>>
         /\ StopSessionClose(c)

\* stop_session() from its first line: if self.send_task: cancel(); await it;
\* self.send_task = None
StopSession(c) ==
    /\ stopPc[c] = "link"
    /\ IF send_task # 0 /\ sendSt[send_task] = "run"
       THEN /\ cancelSend' = cancelSend \cup {send_task}
            /\ stopAwait' = [stopAwait EXCEPT ![c] = send_task]
            /\ SetStopPc(c, "sendwait")
            /\ UNCHANGED <<send_task, session_task, closes, cancelSess>>
       ELSE /\ send_task' = 0
            /\ UNCHANGED cancelSend
            /\ StopSessionTask(c)
    /\ UNCHANGED <<audio_out, session, sessSt, sendSt, nTasks, sent, unsent,
                   nCap, capLeft>>
    /\ UNCHANGED <<running, recording_buffer, runPc, capQ, recSt, playStop,
                   saved, nCaptured, stopWhileRunning>>
    /\ UNCHANGED <<auxVars, audio_in, playVars, fed, recvVars>>

\* the awaited send task has ended: self.send_task = None, and the call goes on
StopSendJoined(c) ==
    /\ stopPc[c] = "sendwait"
    /\ sendSt[stopAwait[c]] = "done"
    /\ send_task' = 0
    /\ StopSessionTask(c)
    /\ UNCHANGED <<audio_out, session, sessSt, sendSt, cancelSend, nTasks, sent,
                   unsent, nCap, capLeft>>
    /\ UNCHANGED <<running, recording_buffer, runPc, capQ, recSt, playStop,
                   saved, nCaptured, stopWhileRunning>>
    /\ UNCHANGED <<auxVars, audio_in, playVars, fed, recvVars>>

\* the awaited session task has ended: self.session_task = None, and the call goes on
StopSessJoined(c) ==
    /\ stopPc[c] = "sesswait"
    /\ sessSt[stopAwait[c]] \notin SessActive
    /\ IF sessSt[stopAwait[c]] = "failed"
       THEN /\ SetStopPc(c, "raised")
            /\ UNCHANGED <<session_task, closes>>
       ELSE /\ session_task' = 0
            /\ StopSessionClose(c)
    /\ UNCHANGED <<audio_out, session, send_task, sessSt, sendSt, cancelSess,
                   cancelSend, nTasks, sent, unsent, nCap, capLeft>>
    /\ UNCHANGED <<running, recording_buffer, runPc, stopAwait, capQ, recSt,
                   playStop, saved, nCaptured, stopWhileRunning>>
    /\ UNCHANGED <<auxVars, audio_in, playVars, fed, recvVars>>

\* session.close() has returned: self.session = None
StopSessionClosed(c) ==
    /\ stopPc[c] = "closewait"
    /\ session' = 0
    /\ SetStopPc(c, "done")
    /\ UNCHANGED <<audio_out, send_task, session_task, sessSt, sendSt, cancelSess,
                   cancelSend, nTasks, closes, sent, unsent, nCap, capLeft>>
    /\ UNCHANGED <<running, recording_buffer, runPc, stopAwait, capQ, recSt,
                   playStop, saved, nCaptured, stopWhileRunning>>
    /\ UNCHANGED <<auxVars, audio_in, playVars, fed, recvVars>>

\* a user of the transcriber calls stop_session(); the calls are numbered in
\* the order in which they are made
StopSessionCall(c) ==
    /\ c # 0
    /\ stopPc[c] = "idle"
    /\ c > 1 => stopPc[c - 1] # "idle"
    /\ SetStopPc(c, "link")
    /\ UNCHANGED <<running, recording_buffer, runPc, stopAwait, capQ, recSt,
                   playStop, saved, nCaptured, stopWhileRunning>>
    /\ UNCHANGED <<auxVars, audio_in, playVars, fed, linkVars, recvVars>>

\* ------------------------------------------ translator.py: stop()
\* stop() is entered: self.running = False, then await self.recorder.stop()
EnterStop(c) ==
    /\ running' = FALSE
    /\ SetStopPc(c, "rec")

\* a call of stop() from outside run(); the calls are numbered in the order
\* in which they are made
StopCall(c) ==
    /\ c # 0
    /\ stopPc[c] = "idle"
    /\ c > 1 => stopPc[c - 1] # "idle"
    /\ EnterStop(c)
    /\ stopWhileRunning' = (stopWhileRunning \/ runPc = "routing")
    /\ UNCHANGED <<recording_buffer, runPc, stopAwait, capQ, recSt, playStop,
                   saved, nCaptured>>
    /\ UNCHANGED <<auxVars, audio_in, playVars, fed, linkVars, recvVars>>

\* AudioRecorder.stop(): the stream is closed and the frame sequence ends
RecorderStop(c) ==
    /\ stopPc[c] = "rec"
    /\ recSt' = "stopped"
    /\ SetStopPc(c, "play")
    /\ UNCHANGED <<running, recording_buffer, runPc, stopAwait, capQ, playStop,
                   saved, nCaptured, stopWhileRunning>>
    /\ UNCHANGED <<auxVars, audio_in, playVars, fed, linkVars, recvVars>>

\* AudioPlayer.stop(): end of stream is raised at once
PlayerStop(c) ==
    /\ stopPc[c] = "play"
    /\ playStop' = TRUE
    /\ done' = TRUE
    /\ SetStopPc(c, "link")
    /\ UNCHANGED <<running, recording_buffer, runPc, stopAwait, capQ, recSt,
                   saved, nCaptured, stopWhileRunning>>
    /\ UNCHANGED <<pq, buffer, playPc, held, stream, cbPc, cbFut, cbRes, getWait,
                   orphNew, orphWoken, req, source, played, lastWrite, taken>>
    /\ UNCHANGED <<auxVars, audio_in, fed, linkVars, recvVars>>

\* AudioRecorder.is_active: the capture stream is running
RecorderIsActive == recSt = "active"

\* the flag is the state of the output stream alone
PlayerIsActiveStream == stream = "active"

\* AudioPlayer.is_active: the output stream is running and stop() has not
\* been called
PlayerIsActive == stream = "active" /\ ~playStop

\* the states of play() in which a stop request is honoured
AbandonAtWaitOnly == {"init", "waiting"}

AbandonFrom == {"init", "feeding", "putting", "waiting"}

\* a play() that was stopped gives up draining, closes the stream and returns
PlayAbandon ==
    /\ playStop
    /\ playPc \in AbandonFrom
    /\ playPc' = "returned"
    /\ stream' = "closed"
    /\ UNCHANGED <<pq, buffer, done, held, cbPc, cbFut, cbRes, getWait, orphNew,
                   orphWoken, req, source, played, lastWrite, taken>>
    /\ UNCHANGED <<audio_in, fed, nonPlay>>

\* ------------------------------- translator.py: run(), start_streaming()
\* playback_task = create_task(self.player.play(...)); self.recorder.start()
Run ==
    /\ runPc = "idle"
    /\ runPc' = "routing"
    /\ playPc' = "init"
    /\ recSt' = "active"
    /\ UNCHANGED <<running, recording_buffer, stopPc, stopAwait, capQ, playStop,
                   saved, nCaptured, stopWhileRunning>>
    /\ UNCHANGED <<pq, buffer, done, held, stream, cbPc, cbFut, cbRes, getWait,
                   orphNew, orphWoken, req, source, played, lastWrite, taken>>
    /\ UNCHANGED <<auxVars, audio_in, fed, linkVars, recvVars>>

\* bytes(indata) of the k-th block: BlockSize int16 samples, two bytes each;
\* the bytes are numbered 1, 2, 3, ... from the first block on
CapFrame(k) == [j \in 1..(2 * BlockSize) |-> 2 * BlockSize * (k - 1) + j]

\* every byte read as one sample
FromBufferBytewise(b) == [i \in 1..Len(b) |-> <<b[i], b[i]>>]

\* only the last array
ConcatenateLast(arrays) ==
    IF arrays = <<>> THEN <<>> ELSE arrays[Len(arrays)]

\* np.frombuffer(audio_data, dtype=np.int16): one sample per two bytes; a
\* length that is no multiple of two raises ValueError
FromBufferOk(b) == Len(b) % 2 = 0
FromBuffer(b) == [i \in 1..(Len(b) \div 2) |-> <<b[2 * i - 1], b[2 * i]>>]

\* np.concatenate(self.recording_buffer)
RECURSIVE Concatenate(_)
Concatenate(arrays) ==
    IF arrays = <<>> THEN <<>> ELSE Head(arrays) \o Concatenate(Tail(arrays))

\* save_wav(audio_data, ..., sample_rate=None): nothing is written for empty
\* data, else one file at sample_rate or self.input_sample_rate
SaveWav(audio_data) ==
    IF Len(audio_data) = 0
    THEN saved
    ELSE Append(saved, [data |-> audio_data, rate |-> input_sample_rate])

\* the flag is not looked at
KeepRoutingAlways == TRUE

\* if not self.running: break
KeepRouting == running

\* record(): the capture callback hands a frame to the loop, which queues it
Capture ==
    /\ recSt = "active"
    /\ capLeft > 0
    /\ capLeft' = capLeft - 1
    /\ nCaptured' = nCaptured + 1
    /\ capQ' = Append(capQ, CapFrame(nCaptured + 1))
    /\ UNCHANGED <<running, recording_buffer, runPc, stopPc, stopAwait, recSt,
                   playStop, saved, stopWhileRunning>>
    /\ UNCHANGED <<audio_out, session, send_task, session_task, sessSt, sendSt,
                   cancelSess, cancelSend, nTasks, closes, sent, unsent, nCap>>
    /\ UNCHANGED <<auxVars, audio_in, playVars, fed, recvVars>>

\* async for audio_data in self.recorder.start(): if not self.running: break;
\* await self.process_audio(audio_data)
RouteFrame ==
    /\ runPc = "routing"
    /\ capQ # <<>>
    /\ capQ' = Tail(capQ)
    /\ IF KeepRouting
       THEN /\ routed' = Append(routed, Head(capQ))
            /\ UNCHANGED runPc
            /\ IF FromBufferOk(Head(capQ))
               THEN /\ recording_buffer' =
                        Append(recording_buffer, FromBuffer(Head(capQ)))
                    /\ TranscribeAudio(Head(capQ))
                    /\ nCap' = nCap + 1
               ELSE UNCHANGED <<recording_buffer, session_task, nTasks, sessSt,
                                audio_out, nCap>>
       ELSE /\ runPc' = "finally"
            /\ UNCHANGED <<routed, recording_buffer, session_task, nTasks,
                           sessSt, audio_out, nCap>>
    /\ UNCHANGED <<rateVars, iterVars>>
    /\ UNCHANGED <<running, stopPc, stopAwait, recSt, playStop, saved, nCaptured,
                   stopWhileRunning>>
    /\ UNCHANGED <<session, send_task, sendSt, cancelSess, cancelSend, closes,
                   sent, unsent, capLeft>>
    /\ UNCHANGED <<audio_in, playVars, fed, recvVars>>

\* the frame sequence of a stopped recorder ends: the loop is left
RouteEnd ==
    /\ runPc = "routing"
    /\ recSt = "stopped"
    /\ runPc' = "finally"
    /\ UNCHANGED <<running, recording_buffer, stopPc, stopAwait, capQ, recSt,
                   playStop, saved, nCaptured, stopWhileRunning>>
    /\ UNCHANGED <<auxVars, audio_in, playVars, fed, linkVars, recvVars>>

\* finally: if self.recording_buffer: save_wav(concatenate(...)) and empty it;
\* await self.stop()
RunFinally ==
    /\ runPc = "finally"
    /\ saved' = IF recording_buffer # <<>>
                THEN SaveWav(Concatenate(recording_buffer))
                ELSE saved
    /\ recording_buffer' = <<>>
    /\ EnterStop(0)
    /\ runPc' = "stopping"
    /\ UNCHANGED <<stopAwait, capQ, recSt, playStop, nCaptured, stopWhileRunning>>
    /\ UNCHANGED <<auxVars, audio_in, playVars, fed, linkVars, recvVars>>

\* await self.stop() is over: it returned, or it raised and the exception
\* leaves start_streaming() and run()
RunStopped ==
    /\ runPc = "stopping"
    /\ stopPc[0] \in {"done", "raised"}
    /\ runPc' = IF stopPc[0] = "done" THEN "awaitPlay" ELSE "raised"
    /\ UNCHANGED <<running, recording_buffer, stopPc, stopAwait, capQ, recSt,
                   playStop, saved, nCaptured, stopWhileRunning>>
    /\ UNCHANGED <<auxVars, audio_in, playVars, fed, linkVars, recvVars>>

\* await playback_task is over: start_streaming() and run() return
RunReturn ==
    /\ runPc = "awaitPlay"
    /\ playPc = "returned"
    /\ runPc' = "returned"
    /\ UNCHANGED <<running, recording_buffer, stopPc, stopAwait, capQ, recSt,
                   playStop, saved, nCaptured, stopWhileRunning>>
    /\ UNCHANGED <<auxVars, audio_in, playVars, fed, linkVars, recvVars>>

\* self.input_sample_rate = 16000; self.output_sample_rate = 24000
DefaultInputRate == 16000
DefaultOutputRate == 24000

\* main.py run(): after AudioTranslator() has been constructed, the rates
\* given on the command line are assigned to the translator's attributes
Rates == {DefaultInputRate, DefaultOutputRate}

Configure ==
    /\ runPc = "idle"
    /\ \A c \in StopIds : stopPc[c] = "idle"
    /\ \E ir \in Rates, outr \in Rates :
        /\ <<ir, outr>> # <<input_sample_rate, output_sample_rate>>
        /\ input_sample_rate' = ir
        /\ output_sample_rate' = outr
    /\ UNCHANGED <<recorder_samplerate, player_samplerate, routed, iterVars>>
    /\ UNCHANGED <<audio_in, playVars, fed, linkVars, recvVars, orchVars>>

\* a rate no device runs at
InvalidRate == -1

\* main.py run() with any --input-rate and --output-rate: the values are
\* assigned as they are
ConfigureAny ==
    /\ runPc = "idle"
    /\ \A c \in StopIds : stopPc[c] = "idle"
    /\ \E ir \in Rates \cup {InvalidRate}, outr \in Rates \cup {InvalidRate} :
        /\ <<ir, outr>> # <<input_sample_rate, output_sample_rate>>
        /\ input_sample_rate' = ir
        /\ output_sample_rate' = outr
    /\ UNCHANGED <<recorder_samplerate, player_samplerate, routed, iterVars>>
    /\ UNCHANGED <<audio_in, playVars, fed, linkVars, recvVars, orchVars>>

\* ------------------------------------------------ device failures
\* record(): sd.RawInputStream(...) raises; the exception is logged and raised
\* again, start_streaming() catches it (except Exception) and goes to finally
RunOpenFail ==
    /\ runPc = "idle"
    /\ runPc' = "finally"
    /\ playPc' = "init"
    /\ recSt' = "failed"
    /\ UNCHANGED <<running, recording_buffer, stopPc, stopAwait, capQ, playStop,
                   saved, nCaptured, stopWhileRunning>>
    /\ UNCHANGED <<pq, buffer, done, held, stream, cbPc, cbFut, cbRes, getWait,
                   orphNew, orphWoken, req, source, played, lastWrite, taken>>
    /\ UNCHANGED <<auxVars, audio_in, fed, linkVars, recvVars>>

\* playout(): sd.RawOutputStream(...) raises; the exception is logged and
\* raised again, and ends the playback task
PlayOpenFail ==
    /\ playPc = "init"
    /\ playPc' = "failed"
    /\ UNCHANGED <<pq, buffer, done, held, stream, cbPc, cbFut, cbRes, getWait,
                   orphNew, orphWoken, req, source, played, lastWrite, taken>>
    /\ UNCHANGED <<audio_in, fed, nonPlay>>

\* await playback_task on a task that failed: only CancelledError is caught,
\* the exception leaves start_streaming() and run()
RunPlayFailed ==
    /\ runPc = "awaitPlay"
    /\ playPc = "failed"
    /\ runPc' = "raised"
    /\ UNCHANGED <<running, recording_buffer, stopPc, stopAwait, capQ, recSt,
                   playStop, saved, nCaptured, stopWhileRunning>>
    /\ UNCHANGED <<auxVars, audio_in, playVars, fed, linkVars, recvVars>>

DevNext ==
    \/ RunOpenFail
    \/ PlayOpenFail
    \/ RunPlayFailed

\* the steps of the tasks of the event loop that stop() and run() start
TaskNext ==
    \/ PlayAbandon
    \/ RouteFrame
    \/ RouteEnd
    \/ RunFinally
    \/ RunStopped
    \/ RunReturn
    \/ \E c \in StopIds :
        \/ RecorderStop(c)
        \/ PlayerStop(c)
        \/ StopSession(c)
        \/ StopSendJoined(c)
        \/ StopSessJoined(c)
        \/ StopSessionClosed(c)
    \/ \E i \in SessIds :
        \/ SessCancelled(i)
        \/ SendCancelled(i)

\* what the outside does: it calls run(), it calls stop(), a frame is captured
EnvNext ==
    \/ Run
    \/ Capture
    \/ \E c \in StopIds : StopCall(c)

\* the steps of the play() coroutine, without those of the callback thread
FeedNext ==
    \/ PlayOpen
    \/ FeederNext
    \/ FeederPut
    \/ PlayReturn

Next == FeedNext \/ SessNext \/ TaskNext \/ EnvNext

\* the transcriber after __init__
InitLink ==
    /\ audio_out = <<>>
    /\ session = 0
    /\ send_task = 0
    /\ session_task = 0
    /\ sessSt = [i \in SessIds |-> "none"]
    /\ sendSt = [i \in SessIds |-> "none"]
    /\ cancelSess = {}
    /\ cancelSend = {}
    /\ nTasks = 0
    /\ closes = [i \in SessIds |-> 0]
    /\ sent = <<>>
    /\ unsent = <<>>
    /\ nCap = 0

\* the orchestrator after __init__: the recorder and the player are created
\* with the rates the orchestrator has at that moment
InitOrch ==
    /\ running = TRUE
    /\ recording_buffer = <<>>
    /\ runPc = "idle"
    /\ stopPc = [c \in StopIds |-> "idle"]
    /\ stopAwait = [c \in StopIds |-> 0]
    /\ capQ = <<>>
    /\ recSt = "idle"
    /\ playStop = FALSE
    /\ saved = <<>>
    /\ nCaptured = 0
    /\ stopWhileRunning = FALSE
    /\ routed = <<>>
    /\ input_sample_rate = DefaultInputRate
    /\ output_sample_rate = DefaultOutputRate
    /\ recorder_samplerate = DefaultInputRate
    /\ player_samplerate = DefaultOutputRate

\* playout() before its first step
InitPlayout ==
    /\ req \in 1..MaxReq
    /\ pq = <<>>
    /\ buffer = <<>>
    /\ done = FALSE
    /\ held = NoneItem
    /\ stream = "closed"
    /\ cbPc = "idle"
    /\ cbFut = "none"
    /\ cbRes = NoneItem
    /\ getWait = <<>>
    /\ orphNew = 0
    /\ orphWoken = 0
    /\ played = <<>>
    /\ lastWrite = [wrote |-> 0, deleted |-> 0, req |-> 0]
    /\ taken = <<>>
    /\ fed = <<>>
    /\ itGets = 0
    /\ itDone = 0

\* play() of a finite source: the frames, then the end of the sequence
InitPlay ==
    /\ \E lens \in SeqsUpTo(1..MaxFrameLen, MaxFrames) :
        /\ source = MkFrames(lens)
        /\ audio_in = MkFrames(lens) \o <<NoneItem>>
        /\ byteTurn = [b \in 1..SumLen(lens) |-> 1]
    /\ turn = 1
    /\ InitPlayout
    /\ playPc = "init"
    /\ InitLink
    /\ InitOrch
    /\ capLeft = 0
    /\ replyLeft = 0

\* a translator after __init__: nothing captured, nothing received
Init ==
    /\ source = <<>>
    /\ audio_in = <<>>
    /\ byteTurn = <<>>
    /\ turn = 1
    /\ InitPlayout
    /\ playPc = "none"
    /\ InitLink
    /\ InitOrch
    /\ capLeft = MaxRouted
    /\ replyLeft = MaxOrchReply

Spec == Init /\ [][Next]_vars

\* the event loop runs every task that is ready, a connect attempt and a
\* close come to an end; nothing is assumed about what the outside does
FairSpec ==
    /\ Init
    /\ [][Next]_vars
    /\ WF_vars(PlayOpen)
    /\ WF_vars(FeederNext)
    /\ WF_vars(FeederPut)
    /\ WF_vars(PlayReturn)
    /\ WF_vars(PlayAbandon)
    /\ WF_vars(RouteFrame)
    /\ WF_vars(RouteEnd)
    /\ WF_vars(RunFinally)
    /\ WF_vars(RunStopped)
    /\ WF_vars(RunReturn)
    /\ \A c \in StopIds :
        /\ WF_vars(RecorderStop(c))
        /\ WF_vars(PlayerStop(c))
        /\ WF_vars(StopSession(c))
        /\ WF_vars(StopSendJoined(c))
        /\ WF_vars(StopSessJoined(c))
        /\ WF_vars(StopSessionClosed(c))
    /\ \A i \in SessIds :
        /\ WF_vars(SessStart(i))
        /\ WF_vars(SessConnect(i) \/ SessConnectFail(i))
        /\ WF_vars(SessCloseDone(i))
        /\ WF_vars(SendAudio(i) \/ SendFail(i))
        /\ WF_vars(SessCancelled(i))
        /\ WF_vars(SendCancelled(i))

\* a translator that main.py configures and runs and the outside stops at
\* most once; frames are captured, the remote end of the link sends nothing
InitRec ==
    /\ source = <<>>
    /\ audio_in = <<>>
    /\ byteTurn = <<>>
    /\ turn = 1
    /\ InitPlayout
    /\ playPc = "none"
    /\ InitLink
    /\ InitOrch
    /\ capLeft = MaxCapture
    /\ replyLeft = 0

RecNext ==
    \/ Configure
    \/ Run
    \/ Capture
    \/ StopCall(1)
    \/ TaskNext
    \/ PlayOpen
    \/ \E i \in SessIds :
        \/ SessStart(i)
        \/ SessConnect(i)
        \/ SessConnectFail(i)
        \/ SendAudio(i)
        \/ SendFail(i)

SpecRec == InitRec /\ [][RecNext]_vars

\* a translator that main.py configures with any rates and runs, up to the
\* moment it is stopped
CfgNext ==
    \/ ConfigureAny
    \/ Run
    \/ Capture
    \/ RouteFrame
    \/ PlayOpen
    \/ \E i \in SessIds :
        \/ SessStart(i)
        \/ SessConnect(i)
        \/ SessConnectFail(i)
        \/ SendAudio(i)
        \/ SendFail(i)

SpecCfg == InitRec /\ [][CfgNext]_vars

\* the same translator with devices that can fail to open
SpecDev == InitRec /\ [][RecNext \/ DevNext]_vars

\* the event loop runs every task that is ready and every attempt to open or
\* to connect comes to an end; nothing is assumed about what the outside does
FairDev ==
    /\ SpecDev
    /\ WF_vars(PlayOpen \/ PlayOpenFail)
    /\ WF_vars(PlayAbandon)
    /\ WF_vars(RouteFrame)
    /\ WF_vars(RouteEnd)
    /\ WF_vars(RunFinally)
    /\ WF_vars(RunStopped)
    /\ WF_vars(RunReturn)
    /\ WF_vars(RunPlayFailed)
    /\ \A c \in StopIds :
        /\ WF_vars(RecorderStop(c))
        /\ WF_vars(PlayerStop(c))
        /\ WF_vars(StopSession(c))
        /\ WF_vars(StopSendJoined(c))
        /\ WF_vars(StopSessJoined(c))
        /\ WF_vars(StopSessionClosed(c))
    /\ \A i \in SessIds :
        /\ WF_vars(SessStart(i))
        /\ WF_vars(SessConnect(i) \/ SessConnectFail(i))
        /\ WF_vars(SendAudio(i) \/ SendFail(i))
        /\ WF_vars(SessCancelled(i))
        /\ WF_vars(SendCancelled(i))

SpecPlay == InitPlay /\ [][PlayNext]_vars

\* the transcriber and play(transcriber.audio_in_iterator), nothing received yet
InitLinkPlay ==
    /\ source = <<>>
    /\ audio_in = <<>>
    /\ byteTurn = <<>>
    /\ turn = 1
    /\ InitPlayout
    /\ playPc = "init"
    /\ InitLink
    /\ InitOrch
    /\ capLeft = 1
    /\ replyLeft = MaxReply

SpecLink == InitLinkPlay /\ [][PlayNext \/ LinkNext]_vars

\* the transcriber and play(transcriber.audio_in_iterator) as a task that can
\* be cancelled; the callback thread is left out
SpecIter == InitLinkPlay /\ [][FeedNext \/ LinkNext \/ PlayCancelled]_vars

\* the two bounded queues, each with its producer and its consumer: play() of
\* a source of one-byte frames, or a transcriber that is handed captured frames
InitQueues ==
    /\ \E k \in 0..MaxFrames :
        /\ source = MkFrames([i \in 1..k |-> 1])
        /\ byteTurn = [b \in 1..k |-> 1]
    /\ turn = 1
    /\ replyLeft = 0
    /\ InitPlayout
    /\ InitLink
    /\ InitOrch
    /\ \/ playPc = "init" /\ capLeft = 0 /\ audio_in = source \o <<NoneItem>>
       \/ playPc = "none" /\ capLeft = MaxCapture /\ audio_in = <<>> /\ source = <<>>

SendNext ==
    \/ Transcribe
    \/ \E i \in SessIds :
        \/ SessStart(i)
        \/ SessConnect(i)
        \/ SessConnectFail(i)
        \/ SendAudio(i)
        \/ SendFail(i)

SpecQueues == InitQueues /\ [][PlayNext \/ SendNext]_vars

\* a transcriber that is handed captured frames, with a link whose send and
\* receive can fail
InitSend ==
    /\ source = <<>>
    /\ audio_in = <<>>
    /\ byteTurn = <<>>
    /\ turn = 1
    /\ replyLeft = 0
    /\ InitPlayout
    /\ playPc = "none"
    /\ InitLink
    /\ InitOrch
    /\ capLeft = MaxCapture

SpecSend ==
    InitSend /\ [][SendNext \/ \E i \in SessIds : LinkRecvError(i) \/ SessCloseDone(i)]_vars

\* a stop_session() call whose awaited task has ended is ready to run
JoinReady(c) ==
    \/ stopPc[c] = "sendwait" /\ sendSt[stopAwait[c]] = "done"
    \/ stopPc[c] = "sesswait" /\ sessSt[stopAwait[c]] \notin SessActive

\* the event loop runs what is ready in the order in which it became ready: a
\* session task takes its first step after the calls that were ready before
\* it was created
SessStartInTurn(i) ==
    /\ \A c \in StopIds : ~JoinReady(c)
    /\ SessStart(i)

\* the same transcriber with a user that also calls stop_session()
SessCallNext ==
    \/ Transcribe
    \/ \E i \in SessIds :
        \/ SessStartInTurn(i)
        \/ SessConnect(i)
        \/ SessConnectFail(i)
        \/ SendAudio(i)
        \/ SendFail(i)
        \/ LinkRecvError(i)
        \/ SessCloseDone(i)
        \/ SessCancelled(i)
        \/ SendCancelled(i)
    \/ \E c \in StopIds :
        \/ StopSessionCall(c)
        \/ StopSession(c)
        \/ StopSendJoined(c)
        \/ StopSessJoined(c)
        \/ StopSessionClosed(c)

SpecSess == InitSend /\ [][SessCallNext]_vars

\* play() of a finite source that nothing has been played of yet, and one
\* call of stop() at any moment
StopPlayNext ==
    \/ FeedNext
    \/ PlayAbandon
    \/ StopCall(1)
    \/ RecorderStop(1)
    \/ PlayerStop(1)
    \/ StopSession(1)

SpecStopPlay == InitPlay /\ [][StopPlayNext]_vars

\* the event loop runs every coroutine that is ready; nothing is assumed about
\* when stop() is called
FairStopPlay ==
    /\ SpecStopPlay
    /\ WF_vars(PlayOpen)
    /\ WF_vars(FeederNext)
    /\ WF_vars(FeederPut)
    /\ WF_vars(PlayReturn)
    /\ WF_vars(PlayAbandon)
    /\ WF_vars(RecorderStop(1))
    /\ WF_vars(PlayerStop(1))
    /\ WF_vars(StopSession(1))

\* ------------------------------ tests/gemini-audio-test.py: AudioLoop
\* one frame is taken and the loop gives way
DrainOne(q) == IF q = <<>> THEN q ELSE Tail(q)

\* while not self.audio_in_queue.empty(): self.audio_in_queue.get_nowait()
\* (no await in the loop: the event loop runs nothing else in between)
RECURSIVE DrainQueue(_)
DrainQueue(q) == IF q = <<>> THEN q ELSE DrainQueue(Tail(q))

\* receive_audio: self.audio_in_queue.put_nowait(part.inline_data.data)
LoopRecvAudio ==
    /\ replyLeft > 0
    /\ replyLeft' = replyLeft - 1
    /\ \E n \in 1..MaxFrameLen :
        LET d == [j \in 1..n |-> Len(byteTurn) + j] IN
        /\ audio_in' = Append(audio_in, Frame(d))
        /\ source' = Append(source, Frame(d))
        /\ byteTurn' = byteTurn \o [j \in 1..n |-> turn]
    /\ UNCHANGED <<pq, buffer, done, playPc, held, stream, cbPc, cbFut, cbRes,
                   getWait, orphNew, orphWoken, req, played, lastWrite, taken>>
    /\ UNCHANGED <<fed, linkVars, turn, orchVars, auxVars>>

\* receive_audio: turn_complete empties the queue
LoopTurnComplete ==
    /\ turn < MaxTurns
    /\ turn' = turn + 1
    /\ audio_in' = DrainQueue(audio_in)
    /\ UNCHANGED <<playVars, fed, linkVars, byteTurn, replyLeft, orchVars, auxVars>>

\* play_audio: bytestream = await self.audio_in_queue.get(); stream.write
LoopPlayAudio ==
    /\ audio_in # <<>>
    /\ audio_in' = Tail(audio_in)
    /\ played' = played \o Head(audio_in).data
    /\ UNCHANGED <<pq, buffer, done, playPc, held, stream, cbPc, cbFut, cbRes,
                   getWait, orphNew, orphWoken, req, source, lastWrite, taken>>
    /\ UNCHANGED <<fed, nonPlay>>

\* AudioLoop after __init__ and run(): the queue is empty
InitLoop ==
    /\ source = <<>>
    /\ audio_in = <<>>
    /\ byteTurn = <<>>
    /\ turn = 1
    /\ replyLeft = MaxFrames
    /\ InitPlayout
    /\ playPc = "none"
    /\ InitLink
    /\ InitOrch
    /\ capLeft = 0

SpecLoop ==
    InitLoop /\ [][LoopRecvAudio \/ LoopTurnComplete \/ LoopPlayAudio]_vars

\* the event loop runs every coroutine that is ready; the hardware calls the
\* callback every period while the stream is active; a timeout that stays
\* pending expires
FairPlay ==
    /\ InitPlay
    /\ [][PlayNext]_vars
    /\ WF_vars(PlayOpen)
    /\ WF_vars(FeederNext)
    /\ WF_vars(FeederPut)
    /\ WF_vars(PlayReturn)
    /\ WF_vars(GetRunCb)
    /\ WF_vars(GetRunOrphan)
    /\ WF_vars(CbStart)
    /\ WF_vars(CbGot)
    /\ WF_vars(CbTimeout)

\* frames that can be longer than one callback request
MaxLongLen == 3
MaxLongFrames == 2

\* play() of a finite source of such frames
InitLong ==
    /\ \E lens \in SeqsUpTo(1..MaxLongLen, MaxLongFrames) :
        /\ source = MkFrames(lens)
        /\ audio_in = MkFrames(lens) \o <<NoneItem>>
        /\ byteTurn = [b \in 1..SumLen(lens) |-> 1]
    /\ turn = 1
    /\ InitPlayout
    /\ playPc = "init"
    /\ InitLink
    /\ InitOrch
    /\ capLeft = 0
    /\ replyLeft = 0

\* play() with a callback that can fail
SpecFail == InitLong /\ [][PlayNext \/ CbFail]_vars

\* the same fairness as for play() alone; a failure need not happen
FairFail ==
    /\ SpecFail
    /\ WF_vars(PlayOpen)
    /\ WF_vars(FeederNext)
    /\ WF_vars(FeederPut)
    /\ WF_vars(PlayReturn)
    /\ WF_vars(GetRunCb)
    /\ WF_vars(GetRunOrphan)
    /\ WF_vars(CbStart)
    /\ WF_vars(CbGot)
    /\ WF_vars(CbTimeout)

\* -------------------------------------------------------------- properties

\* C1: every callback invocation that does not stop the stream writes exactly
\* the requested number of bytes to the output and removes exactly that many
\* bytes from the front of the PlaybackBuffer, whatever the pull did.
C1_ExactlyRequested ==
    /\ lastWrite.wrote = lastWrite.req
    /\ lastWrite.deleted = lastWrite.req

\* C2: when play() has returned (and no callback invocation is still running),
\* the bytes emitted by the callback, padding removed, are the concatenation
\* of the source frames, in source order.
C2_AllFramesPlayed ==
    (playPc = "returned" /\ cbPc = "idle") => played = Concat(source)

\* C3: under fair scheduling of the event loop and of the callback, play() of
\* a finite source eventually returns.
C3_PlayReturns == <>(playPc = "returned")

\* C4: the send queue never holds more than its capacity, and the playback
\* input queue never holds more than its capacity.
C4_QueuesBounded ==
    /\ Len(audio_out) <= AudioOutMax
    /\ Len(pq) <= PlayQueueMax

\* transcribe_audio found the send queue full and dropped the frame
C4_Witness ==
    /\ Len(audio_out) = AudioOutMax
    /\ nCap > Len(audio_out) + Len(sent) + Len(unsent)

Range(s) == {s[i] : i \in DOMAIN s}

\* the reply bytes that are on their way to the output and not yet written
PathBytes ==
    Range(Concat(audio_in)) \cup Range(held.data) \cup Range(Concat(pq))
        \cup Range(cbRes.data) \cup (Range(buffer) \ {0})

\* C5: no byte received in an earlier turn is still on its way to the output
\* once a byte of a later turn has been enqueued.
C5_TurnDiscarded ==
    \A b \in PathBytes : \A e \in DOMAIN byteTurn : byteTurn[b] >= byteTurn[e]

IsPrefix(s, t) == Len(s) <= Len(t) /\ s = SubSeq(t, 1, Len(s))

\* C6: the frames put on the playback queue are the first of the frames the
\* link produced, in order, and once the feeder has left its loop no frame the
\* link produced is missing.
C6_AllTurnsForwarded ==
    /\ IsPrefix(fed, source)
    /\ playPc \in {"waiting", "returned"} => fed = source

\* C7: once stop() has been called from outside while run() was routing
\* captured frames, run() eventually returns.
C7_RunReturns == stopWhileRunning ~> (runPc = "returned")

\* the calls of stop() that have been made
StopsCalled == {c \in StopIds : stopPc[c] # "idle"}

\* C8: when two or more calls of stop() have been made and all of them are
\* over, none of them has raised, running is false, and the send task, the
\* session task and the session are absent.
C8_StopIdempotent ==
    (/\ Cardinality(StopsCalled) >= 2
     /\ \A c \in StopsCalled : stopPc[c] \in {"done", "raised"})
    => /\ \A c \in StopsCalled : stopPc[c] = "done"
       /\ ~running
       /\ send_task = 0
       /\ session_task = 0
       /\ session = 0

\* C9: no session is closed a second time, and once the calls of stop() that
\* were made are over, every session that was opened has been closed.
C9_ClosedExactlyOnce ==
    \A i \in SessIds :
        /\ closes[i] <= 1
        /\ (/\ sendSt[i] # "none"
            /\ StopsCalled # {}
            /\ \A c \in StopsCalled : stopPc[c] \in {"done", "raised"})
           => closes[i] = 1

\* C10: no call of stop() raises, and a call that is over has left no send
\* task, no session task and no session.
C10_StopSafe ==
    \A c \in StopIds :
        /\ stopPc[c] # "raised"
        /\ stopPc[c] = "done" =>
              (send_task = 0 /\ session_task = 0 /\ session = 0)

\* the samples of the first n captured blocks, in capture order
SamplesOfBlocks(n) == [i \in 1..(n * BlockSize) |-> <<2 * i - 1, 2 * i>>]

\* C11: at most one recording is ever written; when run() has returned, the
\* accumulator is empty, no recording was written if no frame was accumulated,
\* and else exactly one, holding the samples of all accumulated frames in
\* capture order.
C11_FlushedOnce ==
    /\ Len(saved) <= 1
    /\ runPc = "returned" =>
          /\ recording_buffer = <<>>
          /\ Len(saved) = (IF routed = <<>> THEN 0 ELSE 1)
          /\ \A k \in DOMAIN saved : saved[k].data = SamplesOfBlocks(Len(routed))

\* run() has returned after two or more frames were accumulated and flushed
C11_Witness ==
    /\ runPc = "returned"
    /\ Len(routed) >= 2
    /\ Len(saved) = 1

\* the frames that were offered to the link and not dropped
Offered == Range(audio_out) \cup {sent[k].frame : k \in DOMAIN sent} \cup Range(unsent)

\* C12: while run() is routing, the frames given to process_audio are the
\* first captured frames in capture order, the accumulator holds each of them
\* once, in that order, as BlockSize samples, and so n * BlockSize samples after
\* n frames, whether or not the link took the frame; and no frame is with the
\* link that is not recorded.
C12_RecordedOnce ==
    /\ \A i \in DOMAIN routed : routed[i] = CapFrame(i)
    /\ Offered \subseteq Range(routed)
    /\ runPc = "routing" =>
          /\ Len(recording_buffer) = Len(routed)
          /\ \A i \in DOMAIN recording_buffer :
                recording_buffer[i] =
                    [j \in 1..BlockSize |-> <<routed[i][2 * j - 1], routed[i][2 * j]>>]
          /\ Len(Concatenate(recording_buffer)) = Len(routed) * BlockSize

\* every captured frame has been routed and recorded, and the link dropped one
C12_Witness ==
    /\ runPc = "routing"
    /\ Len(routed) = MaxCapture
    /\ Len(recording_buffer) = MaxCapture
    /\ nCap > Len(audio_out) + Len(sent) + Len(unsent)

\* C13: the captured frames waiting between the capture callback and the
\* routing loop never exceed a fixed limit, however many frames are captured
\* while the loop takes none.
C13_CaptureBacklogBounded == Len(capQ) <= CaptureBacklogMax

\* a device failed: the input stream or the output stream did not open
DeviceFailed == recSt = "failed" \/ playPc = "failed"

\* C14: once a device has failed and stop() has not been called, run()
\* leaves the routing loop and enters its teardown.
C14_DeviceFailureFatal ==
    (DeviceFailed /\ \A c \in StopIds : stopPc[c] = "idle")
        ~> (runPc \in {"finally", "stopping", "awaitPlay", "returned", "raised"})

\* C15: a transcribe_audio call made after the session task has ended with a
\* receive error leaves a session task that is establishing or running a
\* session.
C15_LinkRestarts ==
    [][(/\ session_task # 0
        /\ sessSt[session_task] = "done"
        /\ nCap' = nCap + 1)
       => (session_task' # 0 /\ sessSt'[session_task'] \in SessActive)]_vars

\* C16: a transcribe_audio call that finds the send queue at its capacity
\* leaves the queue as it is.
C16_FullQueueDrops ==
    [][(nCap' = nCap + 1 /\ Len(audio_out) >= AudioOutMax)
       => audio_out' = audio_out]_vars

\* every frame has been handed over, the queue is full, one was dropped
C16_Witness ==
    /\ nCap = MaxCapture
    /\ Len(audio_out) = AudioOutMax
    /\ nCap - Len(sent) - Len(unsent) - Len(audio_out) >= 1

C18_BufferPrivate ==
    (playPc = "waiting" /\ pq = <<>>) => ENABLED PlayReturn

\* stop() has been entered, by a call from outside or by run() itself
StopEntered == \E c \in StopIds : stopPc[c] # "idle"

\* C19: once stop() has been entered, running is false and stays false, and
\* no step appends a frame to the accumulator or hands one to the link.
C19_StoppedTerminal ==
    [][StopEntered =>
          /\ ~running
          /\ ~running'
          /\ routed' = routed
          /\ Len(recording_buffer') <= Len(recording_buffer)
          /\ nCap' = nCap]_vars

\* stop() was called before run(); the later run() took a captured frame from
\* the recorder and dropped it
C19_Witness ==
    /\ StopEntered
    /\ runPc = "returned"
    /\ nCaptured > Len(capQ)
    /\ routed = <<>>
    /\ recording_buffer = <<>>
    /\ nCap = 0

\* C20: the rate the recorder is opened with is the orchestrator's input
\* rate, the rate the player is opened with is its output rate, and every
\* recording is written at the recorder's rate.
C20_RatesAgree ==
    /\ recorder_samplerate = input_sample_rate
    /\ player_samplerate = output_sample_rate
    /\ \A k \in DOMAIN saved : saved[k].rate = recorder_samplerate

\* C21: the drain at a turn boundary is always possible and leaves the queue
\* empty in the same step, whatever number of frames the queue held.
C21_DrainEmpties ==
    /\ [](turn < MaxTurns => ENABLED LoopTurnComplete)
    /\ [][turn' = turn + 1 => audio_in' = <<>>]_vars

\* as many frames as were ever received were in the queue, all were drained
C21_Witness ==
    /\ turn > 1
    /\ Len(source) = MaxFrames
    /\ played = <<>>
    /\ audio_in = <<>>

\* C22: while the configured input or output sample rate is not positive, the
\* capture stream has not been started, the output stream is closed and no
\* session task and no session exist.
C22_InvalidRateRejected ==
    (input_sample_rate <= 0 \/ output_sample_rate <= 0)
    => /\ recSt \notin {"active", "stopped"}
       /\ stream = "closed"
       /\ session_task = 0
       /\ session = 0

FailedPull == cbPc = "pulling" /\ cbPc' = "idle" /\ cbFut # "done"

C26_StopObserved ==
    (stream = "stopped" /\ buffer # <<>>) ~> (playPc \in {"returned", "failed"})

\* C25: a call of stop() has stopped the recorder only when the accumulator
\* had been flushed, the player is stopped only after the recorder's stop()
\* was called, and a call of stop() turns to the link only after the player
\* was stopped.
C25_TeardownOrder ==
    \A c \in StopIds :
        /\ stopPc[c] \notin {"idle", "rec"} => recording_buffer = <<>>
        /\ playStop => recSt # "idle"
        /\ stopPc[c] \notin {"idle", "rec", "play"} => playStop

\* the frames sent to a session, in the order of sending
SentFrames == [k \in DOMAIN sent |-> sent[k].frame]

\* C27: the frames sent are frames that were handed to transcribe_audio, in
\* the order in which they were handed over and each at most once, and the
\* frames still queued are later ones, in that order too.
C27_SentInOrder ==
    LET all == SentFrames \o audio_out IN
    /\ \A k \in DOMAIN all : all[k] \in 1..nCap
    /\ \A j, k \in DOMAIN all : j < k => all[j] < all[k]

\* frames were sent, and one was dropped at a full queue
C27_Witness ==
    /\ Len(sent) >= 2
    /\ nCap = MaxCapture
    /\ nCap > Len(sent) + Len(audio_out) + Len(unsent)
    /\ unsent = <<>>

\* C28: every frame that was accepted into the send queue is in the queue or
\* has been sent to a session.
C28_NoFrameLost ==
    Offered \subseteq (Range(audio_out) \cup Range(SentFrames))

\* the frames put on the reply queue before the first sentinel
FirstTurnFrames == SelectSeq(source, LAMBDA f : byteTurn[f.data[1]] = 1)

\* the frames the iterator has returned to play()
Yielded == IF playPc = "putting" THEN Append(fed, held) ELSE fed

\* C29: task_done() has been called at most as often as get() has returned an
\* item; the frames the iterator has returned are the first of the frames put
\* before the first sentinel, in order, and all of them once it has ended.
C29_TaskDoneMatchesGet ==
    /\ itDone <= itGets
    /\ IsPrefix(Yielded, FirstTurnFrames)
    /\ playPc \in {"waiting", "returned"} => Yielded = FirstTurnFrames

\* the sessions that were opened and not closed, the send tasks that run
OpenSessions == {i \in SessIds : sendSt[i] # "none" /\ closes[i] = 0}
LiveSenders == {i \in SessIds : sendSt[i] = "run"}

\* C30: at most one session is open and at most one send task runs; a session
\* task is started only by a call that finds no session task; and when a
\* stop_session() call returns, no send task runs.
C30_OneSessionOneSender ==
    /\ [](Cardinality(OpenSessions) <= 1)
    /\ [](Cardinality(LiveSenders) <= 1)
    /\ [][nTasks' # nTasks => session_task = 0]_vars
    /\ [][\A c \in StopIds :
            (stopPc[c] # "done" /\ stopPc'[c] = "done") => LiveSenders' = {}]_vars

====
